---- MODULE Spec2Model ----
(***************************************************************************)
(* Model of src/utils/findpackage/packagewin.rs: the CMake package index   *)
(* built by get_cmake_message_with_prefix, and the two lazily initialised  *)
(* statics CMAKE_PACKAGES and CMAKE_PACKAGES_WITHKEY.                      *)
(*                                                                         *)
(* A file-system name is the sequence of its dot separated segments:       *)
(* "A.cmake" is <<"A", "cmake">>.  A path is a sequence of names.          *)
(***************************************************************************)
EXTENDS Integers, Sequences, FiniteSets, TLC

VARIABLES
    env,                     \* the process environment: variable -> value or None
    fs,                      \* the file system under the prefix ScanPrefix
    run1, run2,              \* two direct calls of get_cmake_message_with_prefix
    CMAKE_PACKAGES,          \* LazyLock<Vec<CMakePackage>>
    CMAKE_PACKAGES_WITHKEY,  \* LazyLock<HashMap<String, CMakePackage>>
    scanlog                  \* history: one entry per execution of get_cmake_message

vars == <<env, fs, run1, run2, CMAKE_PACKAGES, CMAKE_PACKAGES_WITHKEY, scanlog>>

(***************************************************************************)
(* Bounds of the model.                                                    *)
(***************************************************************************)
\* SpecScan: entries under share/ and under the library roots
MaxNodes == 2
\* SpecFiles: package directories, and their files other than the config file
MaxDirs == 1
MaxFiles == 2
\* Spec: entries under share/ and under the library roots
MaxLazyNodes == 2

None == "None"
NoName == <<>>

A == <<"A">>
B == <<"B">>
CMAKE == <<"cmake">>
SHARE == <<"share">>

\* directories share/<Name>/cmake considered (none of them named "cmake")
TreeNames == {A, B}
\* glob yields paths in alphabetical order
SortedTrees == <<A, B>>

\* children of a library root considered: a directory A and a file A.cmake
ChildDirNames == {A}
ChildFileNames == {<<"A", "cmake">>}
ChildNames == ChildDirNames \cup ChildFileNames

\* files of a package directory considered
CfgFile == <<"AConfig", "cmake">>
VerA == <<"AConfigVersion", "cmake">>
VerB == <<"BConfigVersion", "cmake">>
Readme == <<"README", "txt">>
InnerNames == {CfgFile, VerA, VerB, Readme}
\* the same names in alphabetical order
SortedInner == <<CfgFile, VerA, VerB, Readme>>

(* What a file is: its content when it can be read ("v1", "v2" declare a   *)
(* version, "text" declares none), "noread" when reading it fails,         *)
(* "nometa" when its metadata cannot be obtained, "absent" when it does    *)
(* not exist.                                                              *)
FileKinds(n) ==
    IF n = CfgFile THEN {"text"}
    ELSE IF n = VerA THEN {"v1", "text", "noread"}
    ELSE IF n = VerB THEN {"v2", "text", "noread"}
    ELSE {"text", "nometa"}

Last(s) == s[Len(s)]
Range(s) == {s[i] : i \in DOMAIN s}

(***************************************************************************)
(* The file system under one prefix.                                       *)
(***************************************************************************)
(* tree: the directories share/<name>/cmake that exist; root: the paths      *)
(* <lib>/cmake that exist, each with its children.  A directory is          *)
(* [listable, files], files giving the kind of each file it holds.          *)
Nothing == <<>>
NoFiles == Nothing
NoDir == [exists |-> FALSE, listable |-> FALSE, files |-> NoFiles]
EmptyDir == [exists |-> TRUE, listable |-> TRUE, files |-> NoFiles]
NoChild == [kind |-> "absent", dir |-> NoDir]
NoRoot == [kind |-> "none", child |-> Nothing]
EmptyFs == [tree |-> Nothing, root |-> Nothing]

Tree(t, n) == IF n \in DOMAIN t.tree THEN t.tree[n] ELSE NoDir
Root(t, l) == IF l \in DOMAIN t.root THEN t.root[l] ELSE NoRoot
Child(r, c) == IF c \in DOMAIN r.child THEN r.child[c] ELSE NoChild
Kind(d, n) == IF n \in DOMAIN d.files THEN d.files[n] ELSE "absent"

FilesOf(d) == {n \in InnerNames : Kind(d, n) # "absent"}
ChildrenOf(r) == {c \in ChildNames : Child(r, c).kind # "absent"}

(***************************************************************************)
(* Paths and the collaborators the scan calls.                             *)
(***************************************************************************)
\* const LIBS
LIBS == << <<"lib">>, <<"lib32">>, <<"lib64">>, <<"share">> >>

\* the prefix the scans of this model are given, an absolute path
ScanPrefix == << <<"/">>, <<"msys64">> >>
\* another prefix, with nothing under it
OtherPrefix == << <<"/">>, <<"opt">> >>
Cwd == << <<"/">>, <<"cwd">> >>

FsAt(prefix, disk) == IF prefix = ScanPrefix THEN disk ELSE EmptyFs

Join(path, name) == Append(path, name)
TreePath(prefix, n) == Join(Join(Join(prefix, SHARE), n), CMAKE)
ChildPath(libpath, c) == Join(libpath, c)

IsAbsolute(path) == path # <<>> /\ path[1] = <<"/">>
\* absolutize: a relative path is joined to the working directory
safe_canonicalize(path) == IF IsAbsolute(path) THEN path ELSE Cwd \o path

\* Url::from_file_path
Url(path) == [scheme |-> "file", path |-> path]

\* CMAKECONFIG, CMAKECONFIGVERSION, CMAKEREGEX: the file name predicates
IsConfigFile(n) == n = CfgFile
IsConfigVersionFile(n) == n \in {VerA, VerB}
IsModuleFile(n) == Len(n) >= 2 /\ Last(n) = "cmake"

\* fs::read_to_string succeeds
Readable(kind) == kind \notin {"absent", "noread", "nometa"}
\* get_version: the version the content declares, if any
get_version(content) == IF content \in {"v1", "v2"} THEN content ELSE None

CMakePackage(name, filetype, filepath, version, tojump) ==
    [name |-> name, filetype |-> filetype, filepath |-> filepath,
     version |-> version, tojump |-> tojump, from |-> "System"]

(***************************************************************************)
(* The state of one scan: the table built so far, the order in which its   *)
(* names were inserted (history), and whether the scan panicked.           *)
(***************************************************************************)
NoPackages == <<>>
ScanStart == [status |-> "ok", packages |-> NoPackages, order |-> <<>>]

\* Insert as packages.insert(name, pkg) would be: the later record replaces
\* the earlier one
InsertOverwrite(st, name, pkg) ==
    [st EXCEPT !.packages = (name :> pkg) @@ @,
               !.order = IF name \in DOMAIN st.packages THEN @ ELSE Append(@, name)]
\* packages.entry(name).or_insert_with(|| pkg)
Insert(st, name, pkg) ==
    IF name \in DOMAIN st.packages THEN st
    ELSE [st EXCEPT !.packages = (name :> pkg) @@ @, !.order = Append(@, name)]

\* ReadVersion keeping the earlier version when the content declares none
ReadVersionKeep(version, kind) ==
    IF Readable(kind) /\ get_version(kind) # None THEN get_version(kind) ELSE version
\* if let Ok(context) = fs::read_to_string(&f) { version = get_version(&context); }
ReadVersion(version, kind) ==
    IF Readable(kind) THEN get_version(kind) ELSE version

(***************************************************************************)
(* The config trees: glob(prefix/share/*/cmake/).                          *)
(***************************************************************************)
GlobTrees(t) == SelectSeq(SortedTrees, LAMBDA n : Tree(t, n).exists)

\* the pattern *.cmake
MatchesStarCmake(n) == Len(n) >= 2 /\ Last(n) = "cmake"

\* glob(path/*.cmake), errors dropped by flatten()
GlobFiles(d) ==
    IF d.listable
    THEN SelectSeq(SortedInner, LAMBDA n : Kind(d, n) # "absent" /\ MatchesStarCmake(n))
    ELSE <<>>

NoAcc == [tojump |-> <<>>, version |-> None, ispackage |-> FALSE]

TreeFile(acc, path, d, f) ==
    [tojump |-> Append(acc.tojump, safe_canonicalize(Join(path, f))),
     ispackage |-> acc.ispackage \/ IsConfigFile(f),
     version |-> IF IsConfigVersionFile(f) THEN ReadVersion(acc.version, Kind(d, f))
                 ELSE acc.version]

RECURSIVE TreeFiles(_, _, _, _)
TreeFiles(acc, path, d, files) ==
    IF files = <<>> THEN acc
    ELSE TreeFiles(TreeFile(acc, path, d, Head(files)), path, d, Tail(files))

\* TreePackageName taking the name of the directory itself
TreePackageNameOwn(path) == Last(path)
\* path.parent().unwrap().file_name()
TreePackageName(path) == path[Len(path) - 1]

\* IsPackage without the test
IsPackageAlways(acc) == TRUE
\* if ispackage { ... }
IsPackage(acc) == acc.ispackage

\* the record a config tree gives, when it is a package
TreeCandidate(path, d) ==
    LET acc == TreeFiles(NoAcc, path, d, GlobFiles(d))
    IN CMakePackage(TreePackageName(path), "Dir", Url(path), acc.version, acc.tojump)

ConfigTree(st, path, d) ==
    LET acc == TreeFiles(NoAcc, path, d, GlobFiles(d))
    IN IF IsPackage(acc)
       THEN Insert(st, TreePackageName(path), TreeCandidate(path, d))
       ELSE st

RECURSIVE ConfigTrees(_, _, _, _)
ConfigTrees(st, prefix, t, names) ==
    IF names = <<>> THEN st
    ELSE ConfigTrees(ConfigTree(st, TreePath(prefix, Head(names)), Tree(t, Head(names))),
                     prefix, t, Tail(names))

(***************************************************************************)
(* The library roots.                                                      *)
(***************************************************************************)
\* p.exists()
Exists(t, lib) == Root(t, lib).kind # "none"

LibPath(prefix, lib) == Join(Join(prefix, lib), CMAKE)
LibOf(libpath) == libpath[Len(libpath) - 1]

Reverse(s) == [i \in 1..Len(s) |-> s[Len(s) + 1 - i]]

\* get_available_libs giving the roots in the opposite order
get_available_libs_reversed(prefix, t) ==
    LET present == SelectSeq(LIBS, LAMBDA l : Exists(t, l))
    IN Reverse([i \in 1..Len(present) |-> LibPath(prefix, present[i])])
\* for lib in LIBS { let p = root_prefix.join(lib).join("cmake"); if p.exists() { ava.push(p); } }
get_available_libs(prefix, t) ==
    LET present == SelectSeq(LIBS, LAMBDA l : Exists(t, l))
    IN [i \in 1..Len(present) |-> LibPath(prefix, present[i])]

\* one entry of a directory child of a library root
ChildDirFile(acc, path, d, f) ==
    IF acc.panic \/ Kind(d, f) = "nometa"
    THEN [acc EXCEPT !.panic = TRUE]
    ELSE IF IsModuleFile(f)
    THEN [acc EXCEPT !.tojump = Append(@, safe_canonicalize(Join(path, f))),
                     !.version = IF IsConfigVersionFile(f)
                                 THEN ReadVersion(@, Kind(d, f)) ELSE @]
    ELSE acc

RECURSIVE ChildDirFiles(_, _, _, _)
ChildDirFiles(acc, path, d, files) ==
    IF files = <<>> THEN acc
    ELSE ChildDirFiles(ChildDirFile(acc, path, d, Head(files)), path, d, Tail(files))

NoChildAcc == [tojump |-> <<>>, version |-> None, panic |-> FALSE]

\* pathname.split('.').collect::<Vec<&str>>()[0]
FilePackageName(pathname) == <<pathname[1]>>

\* path.metadata().is_ok_and(|data| data.is_dir())
IsDirChild(node) == node.kind = "dir"

\* one child of a library root: the table after it
LibChild(st, path, node, c, ord) ==
    IF IsDirChild(node)
    THEN LET acc == ChildDirFiles(NoChildAcc, path, node.dir, ord[path])
         IN IF acc.panic THEN [st EXCEPT !.status = "panic"]
            ELSE Insert(st, c, CMakePackage(c, "Dir", Url(path), acc.version, acc.tojump))
    ELSE Insert(st, FilePackageName(c),
                CMakePackage(FilePackageName(c), "File", Url(path), None,
                             <<safe_canonicalize(path)>>))

\* LibChildren leaving the loop, instead of going on with the next child, at a
\* directory that cannot be listed
RECURSIVE LibChildrenBreak(_, _, _, _, _)
LibChildrenBreak(st, libpath, r, children, ord) ==
    IF children = <<>> \/ st.status = "panic" THEN st
    ELSE LET c == Head(children)
             node == Child(r, c)
         IN IF IsDirChild(node) /\ ~node.dir.listable
            THEN st
            ELSE LibChildrenBreak(LibChild(st, ChildPath(libpath, c), node, c, ord),
                                  libpath, r, Tail(children), ord)

\* for path in paths.flatten() { ... }
RECURSIVE LibChildren(_, _, _, _, _)
LibChildren(st, libpath, r, children, ord) ==
    IF children = <<>> \/ st.status = "panic" THEN st
    ELSE LET c == Head(children)
             node == Child(r, c)
         IN IF IsDirChild(node) /\ ~node.dir.listable
            THEN LibChildren(st, libpath, r, Tail(children), ord)
            ELSE LibChildren(LibChild(st, ChildPath(libpath, c), node, c, ord),
                             libpath, r, Tail(children), ord)

\* for lib in get_available_libs(prefix) { let Ok(paths) = read_dir(lib) else continue; ... }
RECURSIVE LibRoots(_, _, _, _)
LibRoots(st, t, libs, ord) ==
    IF libs = <<>> \/ st.status = "panic" THEN st
    ELSE LET r == Root(t, LibOf(Head(libs)))
         IN IF r.kind # "dir"
            THEN LibRoots(st, t, Tail(libs), ord)
            ELSE LibRoots(LibChildren(st, Head(libs), r, ord[Head(libs)], ord),
                          t, Tail(libs), ord)

\* the whole scan, given the order ord in which read_dir lists each directory
get_cmake_message_with_prefix(prefix, t, ord) ==
    LibRoots(ConfigTrees(ScanStart, prefix, t, GlobTrees(t)),
             t, get_available_libs(prefix, t), ord)

(***************************************************************************)
(* The orders in which read_dir may list the directories a scan reads.     *)
(***************************************************************************)
Perms(S) == {s \in [1..Cardinality(S) -> S] : \A i, j \in 1..Cardinality(S) : s[i] = s[j] => i = j}

\* the directories read_dir lists: <<path, entries>>
ReadDirs(prefix, t) ==
    {<<LibPath(prefix, l), ChildrenOf(Root(t, l))>> : l \in {l \in Range(LIBS) : Root(t, l).kind = "dir"}}
    \cup
    {<<ChildPath(LibPath(prefix, lc[1]), lc[2]), FilesOf(Child(Root(t, lc[1]), lc[2]).dir)>> :
        lc \in {lc \in Range(LIBS) \X ChildNames :
                   /\ Root(t, lc[1]).kind = "dir"
                   /\ Child(Root(t, lc[1]), lc[2]).kind = "dir"
                   /\ Child(Root(t, lc[1]), lc[2]).dir.listable}}

RECURSIVE OraclesOver(_)
OraclesOver(dirs) ==
    IF dirs = {} THEN {NoPackages}
    ELSE LET d == CHOOSE x \in dirs : TRUE
         IN {(d[1] :> p) @@ o : p \in Perms(d[2]), o \in OraclesOver(dirs \ {d})}

Oracles(prefix, t) == OraclesOver(ReadDirs(prefix, t))

(***************************************************************************)
(* Changes of the file system made by the environment (installing          *)
(* packages): the file system after the change.  A package directory is    *)
(* located by [lib, name]: share/<name>/cmake when lib is NoName, and the  *)
(* child <name> of the library root <lib>/cmake otherwise.                 *)
(***************************************************************************)
TreeLocs == {[lib |-> NoName, name |-> n] : n \in TreeNames}
ChildLocs == {[lib |-> l, name |-> c] : l \in Range(LIBS), c \in ChildDirNames}
Locs == TreeLocs \cup ChildLocs

DirAt(t, loc) ==
    IF loc.lib = NoName THEN Tree(t, loc.name) ELSE Child(Root(t, loc.lib), loc.name).dir

DirPath(prefix, loc) ==
    IF loc.lib = NoName THEN TreePath(prefix, loc.name)
    ELSE ChildPath(LibPath(prefix, loc.lib), loc.name)

WithChild(t, lib, c, node) ==
    [t EXCEPT !.root = (lib :> [kind |-> "dir", child |-> (c :> node) @@ Root(t, lib).child]) @@ @]

WithDir(t, loc, d) ==
    IF loc.lib = NoName THEN [t EXCEPT !.tree = (loc.name :> d) @@ @]
    ELSE WithChild(t, loc.lib, loc.name, [kind |-> "dir", dir |-> d])

\* a child may be put under a root that is absent or a listable directory
RootOpen(t, lib) == Root(t, lib).kind \in {"none", "dir"}
LocFree(t, loc) ==
    IF loc.lib = NoName THEN ~Tree(t, loc.name).exists
    ELSE RootOpen(t, loc.lib) /\ Child(Root(t, loc.lib), loc.name).kind = "absent"

NodeCount(t) ==
    Cardinality({n \in TreeNames : Tree(t, n).exists})
    + Cardinality({lc \in Range(LIBS) \X ChildNames : Child(Root(t, lc[1]), lc[2]).kind # "absent"})
    + Cardinality({l \in Range(LIBS) : Root(t, l).kind # "none" /\ ChildrenOf(Root(t, l)) = {}})

FileCount(t) ==
    Cardinality({ln \in Locs \X (InnerNames \ {CfgFile}) : Kind(DirAt(t, ln[1]), ln[2]) # "absent"})

\* the environment variables get_prefix reads; NoValue: the variable is not set
EnvVars == {"MSYSTEM_PREFIX", "CMAKE_PREFIX_PATH"}
NoValue == <<>>

NoRun == [done |-> FALSE, ord |-> NoPackages, out |-> ScanStart]
Uninit == [state |-> "uninit", value |-> <<>>]

Statics == <<CMAKE_PACKAGES, CMAKE_PACKAGES_WITHKEY, scanlog>>

\* the contents of the packages installed as a whole
WithFile(files, n, k) == (n :> k) @@ files
ConfigOnly == WithFile(NoFiles, CfgFile, "text")
Packages ==
    {NoFiles, ConfigOnly, WithFile(ConfigOnly, VerA, "v1"), WithFile(ConfigOnly, VerB, "v2")}

\* a package directory is installed with its files; listable is FALSE when
\* the directory cannot be listed
InstallPackage(loc, files, listable, maxNodes) ==
    /\ NodeCount(fs) < maxNodes
    /\ LocFree(fs, loc)
    /\ fs' = WithDir(fs, loc, [exists |-> TRUE, listable |-> listable, files |-> files])

\* a file is written into a package directory
CreateFile(loc, n, k, maxFiles) ==
    /\ DirAt(fs, loc).exists
    /\ DirAt(fs, loc).listable
    /\ Kind(DirAt(fs, loc), n) = "absent"
    /\ n # CfgFile => FileCount(fs) < maxFiles
    /\ fs' = WithDir(fs, loc, [DirAt(fs, loc) EXCEPT !.files = WithFile(@, n, k)])

\* a package directory loses its read permission
Chmod(loc) ==
    /\ DirAt(fs, loc).exists
    /\ DirAt(fs, loc).listable
    /\ fs' = WithDir(fs, loc, [DirAt(fs, loc) EXCEPT !.listable = FALSE])

\* a file child of a library root ("file"), or a child whose metadata
\* cannot be obtained ("nometa")
Touch(lib, c, k, maxNodes) ==
    /\ NodeCount(fs) < maxNodes
    /\ RootOpen(fs, lib)
    /\ Child(Root(fs, lib), c).kind = "absent"
    /\ fs' = WithChild(fs, lib, c, [kind |-> k, dir |-> NoDir])

\* <lib>/cmake itself exists and is a file
MkRoot(lib, maxNodes) ==
    /\ NodeCount(fs) < maxNodes
    /\ Root(fs, lib).kind = "none"
    /\ fs' = [fs EXCEPT !.root = (lib :> [kind |-> "file", child |-> Nothing]) @@ @]

(***************************************************************************)
(* Direct calls of get_cmake_message_with_prefix, as the test makes them:  *)
(* the file system is set up, then scanned twice (run1, run2) unchanged.   *)
(***************************************************************************)
InitScan ==
    /\ env = [v \in EnvVars |-> NoValue]
    /\ fs = EmptyFs
    /\ run1 = NoRun
    /\ run2 = NoRun
    /\ CMAKE_PACKAGES = Uninit
    /\ CMAKE_PACKAGES_WITHKEY = Uninit
    /\ scanlog = <<>>

Setup == ~run1.done /\ UNCHANGED <<env, run1, run2, Statics>>

ScanInstall ==
    \E loc \in Locs, files \in Packages :
        InstallPackage(loc, files, TRUE, MaxNodes) /\ Setup
ScanInstallUnlistable ==
    \E loc \in Locs :
        InstallPackage(loc, WithFile(ConfigOnly, VerA, "v1"), FALSE, MaxNodes) /\ Setup
ScanTouchFile ==
    \E lib \in Range(LIBS), c \in ChildFileNames : Touch(lib, c, "file", MaxNodes) /\ Setup
ScanTouchNoMeta ==
    \E lib \in Range(LIBS), c \in ChildDirNames : Touch(lib, c, "nometa", MaxNodes) /\ Setup
ScanMkRoot == \E lib \in Range(LIBS) : MkRoot(lib, MaxNodes) /\ Setup

Call(ord) == [done |-> TRUE, ord |-> ord, out |-> get_cmake_message_with_prefix(ScanPrefix, fs, ord)]

Scan1 ==
    /\ ~run1.done
    /\ \E ord \in Oracles(ScanPrefix, fs) : run1' = Call(ord)
    /\ UNCHANGED <<env, fs, run2, Statics>>

Scan2 ==
    /\ run1.done
    /\ ~run2.done
    /\ \E ord \in Oracles(ScanPrefix, fs) : run2' = Call(ord)
    /\ UNCHANGED <<env, fs, run1, Statics>>

NextScan ==
    \/ ScanInstall
    \/ ScanInstallUnlistable
    \/ ScanTouchFile
    \/ ScanTouchNoMeta
    \/ ScanMkRoot
    \/ Scan1
    \/ Scan2

SpecScan == InitScan /\ [][NextScan]_vars

(***************************************************************************)
(* The same call on package directories whose files are written one by     *)
(* one, with every kind of file.                                           *)
(***************************************************************************)
\* the package directories written to: the config trees and the directory A
\* of the first library root
FilesLocs == TreeLocs \cup {[lib |-> LIBS[1], name |-> A]}

FilesMkdir == \E loc \in FilesLocs : InstallPackage(loc, NoFiles, TRUE, MaxDirs) /\ Setup
FilesCreateFile ==
    \E loc \in FilesLocs, n \in InnerNames : \E k \in FileKinds(n) :
        CreateFile(loc, n, k, MaxFiles) /\ Setup
FilesChmod == \E loc \in FilesLocs : Chmod(loc) /\ Setup

NextFiles ==
    \/ FilesMkdir
    \/ FilesCreateFile
    \/ FilesChmod
    \/ Scan1

SpecFiles == InitScan /\ [][NextFiles]_vars

(***************************************************************************)
(* The process: the two lazy statics, the environment variables and the    *)
(* file system changing around them.                                       *)
(***************************************************************************)
\* NoValue when neither variable is set
get_prefix(e) ==
    IF e["MSYSTEM_PREFIX"] # NoValue THEN e["MSYSTEM_PREFIX"] ELSE e["CMAKE_PREFIX_PATH"]

\* the orders read_dir may give the scan get_cmake_message makes
MessageOracles(e, disk) ==
    IF get_prefix(e) = NoValue THEN {NoPackages}
    ELSE Oracles(get_prefix(e), FsAt(get_prefix(e), disk))

get_cmake_message(e, disk, ord) ==
    IF get_prefix(e) = NoValue THEN ScanStart
    ELSE get_cmake_message_with_prefix(get_prefix(e), FsAt(get_prefix(e), disk), ord)

\* IntoValues losing the last value
IntoValuesButOne(m) ==
    {[i \in 1..(Cardinality(DOMAIN m) - 1) |-> m[p[i]]] : p \in Perms(DOMAIN m)}
\* HashMap::into_values().collect(): the values, in the order the hash map
\* iterates, which is any order
IntoValues(m) ==
    {[i \in 1..Cardinality(DOMAIN m) |-> m[p[i]]] : p \in Perms(DOMAIN m)}

Init ==
    /\ env \in [EnvVars -> {NoValue, ScanPrefix, OtherPrefix}]
    /\ fs = EmptyFs
    /\ run1 = NoRun
    /\ run2 = NoRun
    /\ CMAKE_PACKAGES = Uninit
    /\ CMAKE_PACKAGES_WITHKEY = Uninit
    /\ scanlog = <<>>

Initialised(out, value) ==
    IF out.status = "panic" THEN [state |-> "poisoned", value |-> <<>>]
    ELSE [state |-> "init", value |-> value]

\* a dereference of CMAKE_PACKAGES: the first one runs the initialiser
AccessPackages ==
    /\ IF CMAKE_PACKAGES.state # "uninit"
       THEN UNCHANGED <<CMAKE_PACKAGES, scanlog>>
       ELSE \E ord \in MessageOracles(env, fs) :
              LET out == get_cmake_message(env, fs, ord)
              IN /\ \E list \in IntoValues(out.packages) :
                        CMAKE_PACKAGES' = Initialised(out, list)
                 /\ scanlog' = Append(scanlog, [view |-> "CMAKE_PACKAGES", out |-> out])
    /\ UNCHANGED <<env, fs, run1, run2, CMAKE_PACKAGES_WITHKEY>>

\* a dereference of CMAKE_PACKAGES_WITHKEY
AccessPackagesWithKey ==
    /\ IF CMAKE_PACKAGES_WITHKEY.state # "uninit"
       THEN UNCHANGED <<CMAKE_PACKAGES_WITHKEY, scanlog>>
       ELSE \E ord \in MessageOracles(env, fs) :
              LET out == get_cmake_message(env, fs, ord)
              IN /\ CMAKE_PACKAGES_WITHKEY' = Initialised(out, out.packages)
                 /\ scanlog' = Append(scanlog, [view |-> "CMAKE_PACKAGES_WITHKEY", out |-> out])
    /\ UNCHANGED <<env, fs, run1, run2, CMAKE_PACKAGES>>

\* std::env::set_var and remove_var
SetVar ==
    /\ \E v \in EnvVars, val \in {NoValue, ScanPrefix, OtherPrefix} :
          /\ env[v] # val
          /\ env' = [env EXCEPT ![v] = val]
    /\ UNCHANGED <<fs, run1, run2, Statics>>

\* a package is installed under the prefix while the process runs
LazyPackages == {WithFile(ConfigOnly, VerA, "v1")}
LazyInstall ==
    /\ \E loc \in Locs, files \in LazyPackages : InstallPackage(loc, files, TRUE, MaxLazyNodes)
    /\ UNCHANGED <<env, run1, run2, Statics>>
LazyTouchFile ==
    /\ \E lib \in Range(LIBS), c \in ChildFileNames : Touch(lib, c, "file", MaxLazyNodes)
    /\ UNCHANGED <<env, run1, run2, Statics>>

Next ==
    \/ AccessPackages
    \/ AccessPackagesWithKey
    \/ SetVar
    \/ LazyInstall
    \/ LazyTouchFile

Spec == Init /\ [][Next]_vars

(***************************************************************************)
(* Properties.                                                             *)
(***************************************************************************)
DoneRuns == {r \in {run1, run2} : r.done /\ r.out.status = "ok"}
Max(S) == CHOOSE x \in S : \A y \in S : y <= x
Min(S) == CHOOSE x \in S : \A y \in S : x <= y

\* share/<n>/cmake can be listed and holds a config file
IsConfigPackage(t, n) ==
    Tree(t, n).exists /\ Tree(t, n).listable /\ Kind(Tree(t, n), CfgFile) # "absent"

\* the library roots, by their place in LIBS, with a child that gives the name n
Yields(t, i, n) ==
    /\ Root(t, LIBS[i]).kind = "dir"
    /\ \E c \in ChildNames :
          LET node == Child(Root(t, LIBS[i]), c)
          IN \/ node.kind = "dir" /\ node.dir.listable /\ c = n
             \/ node.kind \in {"file", "nometa"} /\ <<c[1]>> = n
Yielding(t, n) == {i \in 1..Len(LIBS) : Yields(t, i, n)}

\* C1: when share/<n>/cmake is a config package, the record kept under n has
\* the location, version and navigation targets of the config tree, whatever
\* the children of the library roots are.
C1_ConfigTreeWins ==
    \A r \in DoneRuns : \A n \in TreeNames :
        IsConfigPackage(fs, n) =>
            /\ n \in DOMAIN r.out.packages
            /\ LET got == r.out.packages[n]
                   want == TreeCandidate(TreePath(ScanPrefix, n), Tree(fs, n))
               IN /\ got.filetype = "Dir"
                  /\ got.filepath = Url(TreePath(ScanPrefix, n))
                  /\ got.version = want.version
                  /\ got.tojump = want.tojump

\* a config tree A declaring v1 and a directory child A of a library root
\* declaring v2 have been scanned
C1_Witness ==
    /\ run1.done
    /\ IsConfigPackage(fs, A)
    /\ Kind(Tree(fs, A), VerA) = "v1"
    /\ \E i \in Yielding(fs, A) : Kind(Child(Root(fs, LIBS[i]), A).dir, VerB) = "v2"
    /\ run1.out.packages[A].version = "v1"

\* the library root a record's location lies under
RootOf(pkg) == pkg.filepath.path[Len(ScanPrefix) + 1]

ExistingDirectories(t) ==
    LET present == SelectSeq(LIBS, LAMBDA l : Root(t, l).kind = "dir")
    IN [i \in 1..Len(present) |-> Join(Join(ScanPrefix, present[i]), CMAKE)]
ExistingPaths(t) ==
    LET present == SelectSeq(LIBS, LAMBDA l : Root(t, l).kind # "none")
    IN [i \in 1..Len(present) |-> Join(Join(ScanPrefix, present[i]), CMAKE)]

\* a name only library roots give is kept from the first root, in the order
\* of LIBS, that gives it
EarlierRootWins(r) ==
    \A n \in {A} :
        (~IsConfigPackage(fs, n) /\ Yielding(fs, n) # {}) =>
            /\ n \in DOMAIN r.out.packages
            /\ RootOf(r.out.packages[n]) = LIBS[Min(Yielding(fs, n))]

\* C8 as claimed: get_available_libs returns exactly the existing directories
\* among <prefix>/{lib,lib32,lib64,share}/cmake, in that order, and a name
\* given by two library roots is kept from the earlier one.
C8_Original ==
    \A r \in DoneRuns :
        /\ get_available_libs(ScanPrefix, fs) = ExistingDirectories(fs)
        /\ EarlierRootWins(r)

\* C8 amended: get_available_libs returns the candidates that exist, a
\* directory or not, in the order of LIBS; a name given by two library roots
\* is kept from the earlier one.
C8_EarlierRootWins ==
    \A r \in DoneRuns :
        /\ get_available_libs(ScanPrefix, fs) = ExistingPaths(fs)
        /\ EarlierRootWins(r)

\* two library roots give the name A, no config tree does, and the scan ran
C8_Witness ==
    /\ run1.done
    /\ ~IsConfigPackage(fs, A)
    /\ Cardinality(Yielding(fs, A)) >= 2
    /\ RootOf(run1.out.packages[A]) = LIBS[Min(Yielding(fs, A))]

\* the module files of a directory
ModuleFiles(d) == {n \in FilesOf(d) : Len(n) >= 2 /\ Last(n) = "cmake"}

\* C9 as claimed: every Dir record has at least one navigation target.
C9_Original ==
    \A r \in DoneRuns : \A n \in DOMAIN r.out.packages :
        r.out.packages[n].filetype = "Dir" => r.out.packages[n].tojump # <<>>

\* C9 amended: a Dir record of a config tree has at least one navigation
\* target, its config file among them; a Dir record without navigation
\* targets is a directory child of a library root that holds no module file.
C9_DirTargets ==
    \A r \in DoneRuns : \A n \in DOMAIN r.out.packages :
        LET pkg == r.out.packages[n]
        IN pkg.filetype = "Dir" =>
            /\ (n \in TreeNames /\ pkg.filepath = Url(TreePath(ScanPrefix, n))) =>
                   Join(TreePath(ScanPrefix, n), CfgFile) \in Range(pkg.tojump)
            /\ pkg.tojump = <<>> =>
                   \E l \in Range(LIBS) :
                       /\ pkg.filepath = Url(ChildPath(LibPath(ScanPrefix, l), n))
                       /\ Child(Root(fs, l), n).kind = "dir"
                       /\ ModuleFiles(Child(Root(fs, l), n).dir) = {}

\* a scan gave a Dir record without navigation targets, and one of a config tree
C9_Witness ==
    /\ run1.done
    /\ \E n \in DOMAIN run1.out.packages :
          run1.out.packages[n].filetype = "Dir" /\ run1.out.packages[n].tojump = <<>>
    /\ \E n \in DOMAIN run1.out.packages :
          run1.out.packages[n].filepath = Url(TreePath(ScanPrefix, n))

\* the package directories that exist
PkgDirs(t) == {loc \in Locs : DirAt(t, loc).exists}
VersionFiles(d) == {n \in FilesOf(d) : n \in {VerA, VerB}}

\* a directory that can be listed and holds a config file and one
\* config-version file declaring a version, and nothing else
HoldsConfigAndVersion(d) ==
    /\ d.listable
    /\ Kind(d, CfgFile) = "text"
    /\ \E v \in VersionFiles(d) :
          /\ FilesOf(d) = {CfgFile, v}
          /\ Kind(d, v) \in {"v1", "v2"}
DeclaredVersion(d) == Kind(d, CHOOSE v \in VersionFiles(d) : TRUE)

\* what is under the prefix is package directories with distinct names, each
\* holding a config file and a config-version file
Independent(t) ==
    /\ PkgDirs(t) # {}
    /\ \A l \in DOMAIN t.root :
          /\ t.root[l].kind = "dir"
          /\ \A c \in DOMAIN t.root[l].child : t.root[l].child[c].kind = "dir"
    /\ \A loc \in PkgDirs(t) : HoldsConfigAndVersion(DirAt(t, loc))
    /\ \A loc1, loc2 \in PkgDirs(t) : loc1.name = loc2.name => loc1 = loc2

\* C5: under a prefix of package directories with distinct names, each
\* holding a config file and a config-version file declaring a version, every
\* directory gives a Dir record under its own name, with its own location,
\* the version it declares and exactly its two files as navigation targets,
\* and the index has no other record.
C5_Independent ==
    \A r \in {r \in {run1, run2} : r.done} :
        Independent(fs) =>
            /\ r.out.status = "ok"
            /\ DOMAIN r.out.packages = {loc.name : loc \in PkgDirs(fs)}
            /\ \A loc \in PkgDirs(fs) :
                  LET pkg == r.out.packages[loc.name]
                      d == DirAt(fs, loc)
                  IN /\ pkg.name = loc.name
                     /\ pkg.filetype = "Dir"
                     /\ pkg.filepath = Url(DirPath(ScanPrefix, loc))
                     /\ pkg.version = DeclaredVersion(d)
                     /\ Range(pkg.tojump) = {Join(DirPath(ScanPrefix, loc), n) : n \in FilesOf(d)}

\* the config tree B and the directory child A of a library root, declaring
\* different versions, have been scanned together
C5_Witness ==
    /\ run1.done
    /\ Independent(fs)
    /\ \E lib \in Range(LIBS) :
          PkgDirs(fs) = {[lib |-> NoName, name |-> B], [lib |-> lib, name |-> A]}
    /\ run1.out.packages[A].version # run1.out.packages[B].version

\* C4 as claimed: two scans of the unchanged file system return the same
\* index, also when read_dir lists the directories in different orders.
C4_Original ==
    run2.done => run1.out.packages = run2.out.packages

\* C4 amended: two scans of the unchanged file system return the same names
\* (or both panic); the records of config trees are the same; and the two
\* indexes are the same when read_dir lists every directory in the same
\* order in both scans.
C4_SameNames ==
    run2.done =>
        /\ run1.out.status = run2.out.status
        /\ DOMAIN run1.out.packages = DOMAIN run2.out.packages
        /\ \A n \in TreeNames :
              (IsConfigPackage(fs, n) /\ run1.out.status = "ok") =>
                  run1.out.packages[n] = run2.out.packages[n]
        /\ run1.ord = run2.ord => run1.out.packages = run2.out.packages

\* two scans listed a library root holding the directory A and the file
\* A.cmake in different orders and kept different records under A
C4_Witness ==
    /\ run2.done
    /\ run1.ord # run2.ord
    /\ A \in DOMAIN run1.out.packages
    /\ run1.out.packages[A].filetype = "Dir"
    /\ run2.out.packages[A].filetype = "File"

\* the order in which run r listed the files of package directory loc
Listing(r, loc) ==
    IF loc.lib = NoName THEN GlobFiles(DirAt(fs, loc))
    ELSE r.ord[DirPath(ScanPrefix, loc)]

\* the places, in a listing, of the config-version files that were read, and
\* of those whose content declared a version
ReadAt(d, listing) ==
    {i \in 1..Len(listing) : listing[i] \in {VerA, VerB} /\ Kind(d, listing[i]) \notin {"noread", "nometa"}}
ParsedAt(d, listing) ==
    {i \in ReadAt(d, listing) : Kind(d, listing[i]) \in {"v1", "v2"}}

\* the package directories whose record run r kept
Kept(r) ==
    {loc \in PkgDirs(fs) :
        /\ loc.name \in DOMAIN r.out.packages
        /\ r.out.packages[loc.name].filepath = Url(DirPath(ScanPrefix, loc))}

\* C7 as claimed: the version of a package directory's record is the one the
\* last successfully parsed config-version file declares, in listing order,
\* and is absent only when none parsed.
C7_Original ==
    \A r \in DoneRuns : \A loc \in Kept(r) :
        LET d == DirAt(fs, loc)
            parsed == ParsedAt(d, Listing(r, loc))
        IN r.out.packages[loc.name].version =
               IF parsed = {} THEN None ELSE Kind(d, Listing(r, loc)[Max(parsed)])

\* C7 amended: the version is what the last config-version file whose
\* content could be read declares, in listing order: absent when that file
\* declares none, whatever an earlier file declared, and absent when no
\* config-version file could be read.
C7_LastReadWins ==
    \A r \in DoneRuns : \A loc \in Kept(r) :
        LET d == DirAt(fs, loc)
            read == ReadAt(d, Listing(r, loc))
            last == Kind(d, Listing(r, loc)[Max(read)])
        IN r.out.packages[loc.name].version =
               IF read = {} THEN None
               ELSE IF last \in {"v1", "v2"} THEN last ELSE None

\* a config tree whose first config-version file declares v1 and whose
\* second declares nothing was scanned, and its record has no version
C7_Witness ==
    /\ run1.done
    /\ IsConfigPackage(fs, A)
    /\ Kind(Tree(fs, A), VerA) = "v1"
    /\ Kind(Tree(fs, A), VerB) = "text"
    /\ run1.out.packages[A].version = None

\* a directory child of a library root whose second config-version file
\* could not be read keeps the version of the first
C7_WitnessUnreadable ==
    /\ run1.done
    /\ \E loc \in Kept(run1) :
          /\ loc.lib # NoName
          /\ Listing(run1, loc) = <<VerA, VerB>>
          /\ Kind(DirAt(fs, loc), VerB) = "noread"
          /\ run1.out.packages[loc.name].version = "v1"

\* C6: a scan never aborts because a directory cannot be listed, the
\* metadata of a file cannot be obtained or a file cannot be read: it
\* returns an index.
C6_NeverAborts ==
    run1.done => run1.out.status = "ok"

\* the scan that initialised a static: its entry of scanlog
ScanOf(view) == scanlog[CHOOSE i \in 1..Len(scanlog) : scanlog[i].view = view]

\* C2: over any accesses to CMAKE_PACKAGES and CMAKE_PACKAGES_WITHKEY, the
\* scan of get_cmake_message is run at most once in the process.
C2_ScanAtMostOnce ==
    Len(scanlog) <= 1

\* C3 as claimed: CMAKE_PACKAGES holds the records in the order in which its
\* scan inserted them.
C3_Original ==
    CMAKE_PACKAGES.state = "init" =>
        LET out == ScanOf("CMAKE_PACKAGES").out
        IN CMAKE_PACKAGES.value = [i \in 1..Len(out.order) |-> out.packages[out.order[i]]]

\* C3 amended: CMAKE_PACKAGES holds every record of the table its scan
\* built exactly once, in an order that need not be the insertion order.
C3_EveryRecordOnce ==
    CMAKE_PACKAGES.state = "init" =>
        LET out == ScanOf("CMAKE_PACKAGES").out
            list == CMAKE_PACKAGES.value
        IN /\ Len(list) = Cardinality(DOMAIN out.packages)
           /\ {list[i].name : i \in 1..Len(list)} = DOMAIN out.packages
           /\ \A i \in 1..Len(list) : list[i] = out.packages[list[i].name]

\* CMAKE_PACKAGES holds two records, the one inserted second first
C3_Witness ==
    /\ CMAKE_PACKAGES.state = "init"
    /\ Len(CMAKE_PACKAGES.value) = 2
    /\ CMAKE_PACKAGES.value[1].name = ScanOf("CMAKE_PACKAGES").out.order[2]

\* C10: once both statics are initialised, the list holds exactly the
\* records that are the values of the map.
C10_ViewsAgree ==
    (CMAKE_PACKAGES.state = "init" /\ CMAKE_PACKAGES_WITHKEY.state = "init") =>
        /\ Len(CMAKE_PACKAGES.value) = Cardinality(DOMAIN CMAKE_PACKAGES_WITHKEY.value)
        /\ Range(CMAKE_PACKAGES.value) =
               {CMAKE_PACKAGES_WITHKEY.value[n] : n \in DOMAIN CMAKE_PACKAGES_WITHKEY.value}

====
